---------------------------- MODULE Spec2Model ----------------------------
(***************************************************************************)
(* A model of MoviesFinder (src/movies_advisor/movies_finder.py), of its   *)
(* legacy copy (src/movies_finder.py) and of Logger (src/utils/log.py).    *)
(*                                                                         *)
(* Python strings are sequences of one-character strings.  Python values   *)
(* whose type matters (a year is an int in one place and a str in another) *)
(* are records [tag, v].  The two websites are the environment: what a     *)
(* request returns is chosen when the request is made.                     *)
(***************************************************************************)
EXTENDS Integers, Sequences, FiniteSets, TLC

(***************************************************************************)
(* Bounds of the model.                                                    *)
(***************************************************************************)
MaxMovies == 2          \* movies in the input mapping
MaxCritics == 2         \* largest number_critics tried (0..MaxCritics)
MaxBlocks == 3          \* most reviewBody blocks on a Source-A page
MaxCandidates == 2      \* most "se-it mt" entries on an ambiguous search page
MaxEntries == 2         \* most result_text entries on a Source-B search page
MaxPieces == 3          \* pieces concatenated into a clean_string input
MaxTitleLen == 3        \* characters in a title_is_accurate input

(***************************************************************************)
(* Python str operations.                                                  *)
(***************************************************************************)
Whitespace == {" ", "\n", "\t"}

UpperToLower ==
    ("A" :> "a") @@ ("B" :> "b") @@ ("C" :> "c") @@ ("D" :> "d") @@
    ("E" :> "e") @@ ("F" :> "f") @@ ("G" :> "g") @@ ("H" :> "h") @@
    ("I" :> "i") @@ ("J" :> "j") @@ ("K" :> "k") @@ ("L" :> "l") @@
    ("M" :> "m") @@ ("N" :> "n") @@ ("O" :> "o") @@ ("P" :> "p") @@
    ("Q" :> "q") @@ ("R" :> "r") @@ ("S" :> "s") @@ ("T" :> "t") @@
    ("U" :> "u") @@ ("V" :> "v") @@ ("W" :> "w") @@ ("X" :> "x") @@
    ("Y" :> "y") @@ ("Z" :> "z")

\* str.lower()
Lower(s) ==
    [j \in 1..Len(s) |->
        IF s[j] \in DOMAIN UpperToLower THEN UpperToLower[s[j]] ELSE s[j]]

\* s[from:]
Drop(s, n) == SubSeq(s, n + 1, Len(s))

\* s.startswith(p)
StartsWith(s, p) == Len(p) <= Len(s) /\ SubSeq(s, 1, Len(p)) = p

\* s.endswith(p)
EndsWith(s, p) ==
    Len(p) <= Len(s) /\ SubSeq(s, Len(s) - Len(p) + 1, Len(s)) = p

\* sub in s
Contains(s, sub) ==
    \E j \in 0..(Len(s) - Len(sub)) : SubSeq(s, j + 1, j + Len(sub)) = sub

RECURSIVE LStrip(_)
LStrip(s) ==
    IF s # <<>> /\ Head(s) \in Whitespace THEN LStrip(Tail(s)) ELSE s

RECURSIVE RStrip(_)
RStrip(s) ==
    IF s # <<>> /\ s[Len(s)] \in Whitespace
    THEN RStrip(SubSeq(s, 1, Len(s) - 1))
    ELSE s

\* str.strip()
Strip(s) == RStrip(LStrip(s))

\* str.replace(old, new) for a non-empty old: occurrences are found left to
\* right and do not overlap; the replacement text is not scanned again.
RECURSIVE Replace(_, _, _)
Replace(s, old, new) ==
    IF Len(s) < Len(old) THEN s
    ELSE IF StartsWith(s, old) THEN new \o Replace(Drop(s, Len(old)), old, new)
    ELSE <<Head(s)>> \o Replace(Tail(s), old, new)

\* str.split(sep) for a non-empty sep: always at least one part.
RECURSIVE SplitFrom(_, _, _)
SplitFrom(s, sep, cur) ==
    IF s = <<>> THEN <<cur>>
    ELSE IF StartsWith(s, sep)
         THEN <<cur>> \o SplitFrom(Drop(s, Len(sep)), sep, <<>>)
         ELSE SplitFrom(Tail(s), sep, Append(cur, Head(s)))

Split(s, sep) == SplitFrom(s, sep, <<>>)

\* reduce(lambda a, b: a + sep + b, words) if len(words) > 1 else words[0]
RECURSIVE JoinWith(_, _)
JoinWith(words, sep) ==
    IF Len(words) = 1 THEN words[1]
    ELSE JoinWith(SubSeq(words, 1, Len(words) - 1), sep)
             \o sep \o words[Len(words)]

Min(a, b) == IF a <= b THEN a ELSE b

(***************************************************************************)
(* Text literals of the source.                                            *)
(***************************************************************************)
FILMAFFINITY == <<"(", "F", "I", "L", "M", "A", "F", "F", "I", "N", "I", "T", "Y", ")">>
AKA == <<"a", "k", "a">>
ELLIPSIS3 == <<" ", "(", ".", ".", ".", ")", " ">>
\* U+2026 (horizontal ellipsis) and U+201C (left double quotation mark) are
\* single characters of the source; they are written here by name.
HELLIP == "U+2026"
LDQUO == "U+201C"
ELLIPSIS1 == <<" ", "(", HELLIP, ")", " ">>
RATING == <<"R", "a", "t", "i", "n", "g">>

(***************************************************************************)
(* MoviesFinder.clean_string                                               *)
(***************************************************************************)
\* a plausible slip: the doubled period is replaced by a single period
CleanReplacementsPeriodSlip(s) ==
    LET r1 == Replace(s, <<"\"">>, <<" ">>)
        r2 == Replace(r1, <<"'">>, <<" ">>)
        r5 == Replace(r2, ELLIPSIS3, <<".", " ">>)
        r6 == Replace(r5, ELLIPSIS1, <<".", " ">>)
        r7 == Replace(r6, <<LDQUO>>, <<>>)
        r8 == Replace(r7, <<".", ".">>, <<".">>)
        r9 == Replace(r8, <<" ", ",">>, <<",", " ">>)
        r10 == Replace(r9, <<" ", " ">>, <<" ">>)
    IN  Strip(r10)

\* the chain of replacements, then .strip()
CleanReplacements(s) ==
    LET r1 == Replace(s, <<"\"">>, <<" ">>)
        r2 == Replace(r1, <<"'">>, <<" ">>)
        r3 == Replace(r2, <<"'", ",">>, <<",", " ">>)
        r4 == Replace(r3, <<"'">>, <<>>)
        r5 == Replace(r4, ELLIPSIS3, <<".", " ">>)
        r6 == Replace(r5, ELLIPSIS1, <<".", " ">>)
        r7 == Replace(r6, <<LDQUO>>, <<>>)
        r8 == Replace(r7, <<".", ".">>, <<".", " ">>)
        r9 == Replace(r8, <<" ", ",">>, <<",", " ">>)
        r10 == Replace(r9, <<" ", " ">>, <<" ">>)
    IN  Strip(r10)

\* if string.endswith("(FILMAFFINITY)"): string = string[:-14].strip()
StripSiteSuffix(s) ==
    IF EndsWith(s, FILMAFFINITY) THEN Strip(SubSeq(s, 1, Len(s) - 14)) ELSE s

\* if string.endswith('aka'): string = string[:-3].strip()
StripAka(s) ==
    IF EndsWith(s, AKA) THEN Strip(SubSeq(s, 1, Len(s) - 3)) ELSE s

clean_string(s) == StripAka(StripSiteSuffix(CleanReplacements(s)))



(***************************************************************************)
(* MoviesFinder.title_is_accurate                                          *)
(***************************************************************************)
\* Length of a longest common subsequence.
RECURSIVE LCS(_, _)
LCS(a, b) ==
    IF a = <<>> \/ b = <<>> THEN 0
    ELSE IF Head(a) = Head(b) THEN 1 + LCS(Tail(a), Tail(b))
    ELSE LET x == LCS(Tail(a), b)
             y == LCS(a, Tail(b))
         IN  IF x >= y THEN x ELSE y

\* The edit distance Levenshtein.ratio rests on: insertions and deletions
\* cost 1, a substitution costs 2.
\* a mis-counted distance: the common part is subtracted once only
EditDistanceSlip(a, b) == Len(a) + Len(b) - LCS(a, b)

EditDistance(a, b) == Len(a) + Len(b) - 2 * LCS(a, b)

\* Levenshtein.ratio(a, b) >= 0.9, with ratio = (lensum - distance) / lensum
\* and ratio = 1.0 for two empty strings; compared in tenths.
LevenshteinAccurate(a, b) ==
    LET lensum == Len(a) + Len(b)
    IN  IF lensum = 0 THEN TRUE
        ELSE 10 * (lensum - EditDistance(a, b)) >= 9 * lensum

\* No call passes use_levenshtein = False, so the SequenceMatcher branch is
\* never taken.
title_is_accurate(title, original_title) ==
    LevenshteinAccurate(title, original_title)

\* The legacy copy: count of title's lowercased words found in the lowercased
\* original title, over the number of words of the original title.
LegacyWordCount(title, original_title) ==
    LET words == Split(title, <<" ">>)
    IN  Cardinality({j \in 1..Len(words) :
                        Contains(Lower(original_title), Lower(words[j]))})

legacy_title_is_accurate(title, original_title) ==
    10 * LegacyWordCount(title, original_title)
        >= 9 * Len(Split(original_title, <<" ">>))

(***************************************************************************)
(* Python values whose type matters.  An int is kept as its decimal text   *)
(* under the tag "int": 2020 == "2020" is False, int("2020") == 2020.      *)
(***************************************************************************)
DigitChars == <<"0", "1", "2", "3", "4", "5", "6", "7", "8", "9">>

RECURSIVE Digits(_)
Digits(n) ==
    IF n < 10 THEN <<DigitChars[n + 1]>>
    ELSE Append(Digits(n \div 10), DigitChars[(n % 10) + 1])

DigitValue(c) == (CHOOSE d \in 1..10 : DigitChars[d] = c) - 1

RECURSIVE DigitsToInt(_)
DigitsToInt(ds) ==
    IF ds = <<>> THEN 0
    ELSE 10 * DigitsToInt(SubSeq(ds, 1, Len(ds) - 1)) + DigitValue(ds[Len(ds)])

PyNone == [tag |-> "none", v |-> <<>>]
PyStr(s) == [tag |-> "str", v |-> s]
PyInt(n) == [tag |-> "int", v |-> Digits(n)]
PyList(l) == [tag |-> "list", v |-> l]

\* a == b
PyEq(a, b) == a.tag = b.tag /\ a.v = b.v

\* int(x) for an int or for the text of one
ToInt(x) == DigitsToInt(x.v)

(***************************************************************************)
(* Logger (src/utils/log.py).  log is declared with no parameter besides   *)
(* self, and its body reads self.message, which nothing sets.              *)
(***************************************************************************)
LogParams == 0

\* The outcome of self._logger.log(<nargs arguments>): the exception the call
\* ends with.  A call that matched the signature would open the file and then
\* fail on self.message; no call ends with "returned".
LoggerLog(nargs) ==
    IF nargs # LogParams THEN "TypeError"
    ELSE "AttributeError"

\* A call record: every call site passes the message as one argument.
LogCall(site) == [site |-> site, outcome |-> LoggerLog(1)]

(***************************************************************************)
(* The input mapping and the pages the two sites can answer with.          *)
(***************************************************************************)
MovieNames == << <<"U", "p">>, <<"I", "t", " ", "2">> >>

\* The year of a movie as the caller passes it: create_training_data.py
\* passes the int extract_year returns, the docstrings announce a str.
QueryYears == {PyInt(2020), PyStr(Digits(2020))}

\* A mapping of n movies, n up to MaxMovies and to the number of names above:
\* the first n names, each with a year.
MovieMappings ==
    UNION {
        {m \in [1..n -> [name : {MovieNames[j] : j \in 1..Len(MovieNames)},
                         year : QueryYears]] :
            \A j \in 1..n : m[j].name = MovieNames[j]}
        : n \in 0..Min(MaxMovies, Len(MovieNames))}

S_AStory == <<"A", " ", "s", "t", "o", "r", "y">>
S_TheEnd == <<"E", "n", "d", ".", " ">>
S_Up == <<"U", "p">>
S_UpSite == <<"U", "p", " ">> \o FILMAFFINITY
S_Ut == <<"U", "t">>
S_ItTwo == <<"I", "t", " ", "2">>
S_OriginalTitle ==
    <<"(", "o", "r", "i", "g", "i", "n", "a", "l", " ",
      "t", "i", "t", "l", "e", ")">>
S_UpOriginal == <<"U", "p", " ">> \o S_OriginalTitle
S_Rating75 == <<"7", ".", "5">>

\* reviewBody blocks in document order: the j-th block of every page.
CriticTexts ==
    << <<"G", "o", "o", "d">>,
       <<"O", "k", " ">> \o RATING \o <<" ", "5">>,
       <<"F", "u", "n", ".">> >>

BlockText(j) == CriticTexts[((j - 1) % Len(CriticTexts)) + 1]

Blocks(n) == [j \in 1..n |-> BlockText(j)]

\* A Source-A page as the Resolver reads it:
\*   status      how the request ended
\*   dd          texts of  dl[class="movie-info"] > dd
\*   cands       the "se-it mt" entries: title attribute, "ye-w" text
\*   synopsis    text of  dd[itemprop="description"], or None
\*   blocks      texts of  div[itemprop="reviewBody"]
APage(status, dd, cands, synopsis, n) ==
    [status |-> status, dd |-> dd, cands |-> cands,
     synopsis |-> synopsis, blocks |-> Blocks(n)]

\* Pages with one detail block.
DetailPages ==
    {APage("ok", <<S_Up>>, <<>>, PyStr(S_AStory), n) : n \in 0..MaxBlocks}
    \cup {APage("ok", <<S_UpSite>>, <<>>, PyStr(S_TheEnd), n) :
              n \in 0..MaxBlocks}
    \cup {APage("ok", <<S_Up>>, <<>>, PyNone, 0),
          APage("ok", <<S_ItTwo>>, <<>>, PyStr(S_AStory), 0)}

\* Search-result entries: the title as listed, the year as listed.
CandidateTitles == {<<"U", "P">>, <<"i", "t", " ", "2">>}
CandidateYears == 2018..2022
Candidates ==
    [title : CandidateTitles, year : {Digits(y) : y \in CandidateYears}]

CandidateLists ==
    UNION {[1..n -> Candidates] : n \in 0..MaxCandidates}

\* Pages with no detail block: a list of candidates (possibly empty).
AmbiguousPages ==
    {APage("ok", <<>>, cs, PyNone, 0) : cs \in CandidateLists}

FailedPages ==
    {APage(st, <<>>, <<>>, PyNone, 0) : st \in {"http_error", "conn_error"}}

SourceAPages == DetailPages \cup AmbiguousPages \cup FailedPages

\* The detail page behind a candidate's href.
CandidateDetail(c) == APage("ok", <<c.title>>, <<>>, PyStr(S_AStory), 1)

(***************************************************************************)
(* MoviesFinder.soup_from_url                                              *)
(***************************************************************************)
\* get() raises on a connection failure; raise_for_status() raises HTTPError,
\* which is caught and logged; then the response text is parsed.
soup_from_url(page) ==
    IF page.status = "conn_error"
    THEN [exc |-> "ConnectionError", logs |-> <<>>]
    ELSE IF page.status = "http_error"
    THEN LET call == LogCall("soup_from_url")
         IN  [exc |-> IF call.outcome = "returned" THEN "none"
                      ELSE call.outcome,
              logs |-> <<call>>]
    ELSE [exc |-> "none", logs |-> <<>>]

(***************************************************************************)
(* MoviesFinder.get_useful_information_from_filmaffinity                   *)
(***************************************************************************)
\* The words of the name, stripped and lowercased, joined by sep.
ParsedName(movie_name, sep) ==
    LET words == Split(movie_name, <<" ">>)
    IN  JoinWith([j \in 1..Len(words) |-> Lower(Strip(words[j]))], sep)

EmptyDict ==
    [filled |-> FALSE, original_name |-> <<>>, year |-> PyNone,
     synopsis |-> <<>>, critics |-> PyNone, imdb_rating |-> PyNone]

\* title_tag[0].get("title").strip().lower() == movie_name.lower()
TitleMatches(c, movie_name) == Lower(Strip(c.title)) = Lower(movie_name)

\* year_tag[0].text.strip() == year or
\*     int(year) - 1 <= int(year_tag[0].text.strip()) <= int(year) + 1
YearAccepted(c, year) ==
    LET listed == PyStr(Strip(c.year))
    IN  \/ PyEq(listed, year)
        \/ /\ ToInt(year) - 1 <= ToInt(listed)
           /\ ToInt(listed) <= ToInt(year) + 1

\* The loop over possible_movies_tags: the index of the candidate at which
\* the loop breaks, 0 when it runs to its end.
FirstAccepted(cands, movie_name, year) ==
    LET ok == {j \in 1..Len(cands) :
                  TitleMatches(cands[j], movie_name)
                  /\ YearAccepted(cands[j], year)}
    IN  IF ok = {} THEN 0 ELSE CHOOSE j \in ok : \A h \in ok : j <= h

\* an off-by-one cap: index <= number_critics
KeepIndexInclusive(index, cap) == index <= cap

\* if index < self.number_critics
KeepIndex(index, cap) == index < cap

\* The blocks the comprehension keeps, in document order.
TakeCritics(blocks, cap) ==
    LET kept == {index \in 0..(Len(blocks) - 1) : KeepIndex(index, cap)}
    IN  [j \in 1..Cardinality(kept) |-> blocks[j]]

\* x + "." if not x.endswith(".") else x
AddPeriod(x) == IF EndsWith(x, <<".">>) THEN x ELSE x \o <<".">>

\* critic.split("Rating")[0].strip() if "Rating" in critic else critic
StripRating(critic) ==
    IF Contains(critic, RATING) THEN Strip(Split(critic, RATING)[1])
    ELSE critic

FormatCritic(text) == StripRating(AddPeriod(clean_string(Strip(text))))

\* the else branch left out: critics stays the list() it was set to
FormatCriticsNoNone(blocks, cap) ==
    LET kept == TakeCritics(blocks, cap)
    IN  PyList([j \in 1..Len(kept) |-> FormatCritic(kept[j])])

\* if critics_tags: ... else: critics = None
FormatCritics(blocks, cap) ==
    IF blocks # <<>>
    THEN LET kept == TakeCritics(blocks, cap)
         IN  PyList([j \in 1..Len(kept) |-> FormatCritic(kept[j])])
    ELSE PyNone

Raised(e, logs, soup) ==
    [exc |-> e, logs |-> logs, rec |-> EmptyDict, soup |-> soup]

\* the year stored as its text: "year": str(year)
BuildRecordYearAsText(original_name, movie_year, soup, cap, logs) ==
    IF soup.synopsis = PyNone
    THEN Raised("AttributeError", logs, soup)
    ELSE [exc |-> "none", logs |-> logs, soup |-> soup,
          rec |-> [filled |-> TRUE,
                   original_name |-> clean_string(original_name),
                   year |-> PyStr(movie_year.v),
                   synopsis |-> AddPeriod(clean_string(Strip(soup.synopsis.v))),
                   critics |-> FormatCritics(soup.blocks, cap),
                   imdb_rating |-> PyNone]]

\* From "original_name = self.clean_string(original_name)" to the end.
BuildRecord(original_name, movie_year, soup, cap, logs) ==
    IF soup.synopsis = PyNone
    THEN Raised("AttributeError", logs, soup)
    ELSE [exc |-> "none", logs |-> logs, soup |-> soup,
          rec |-> [filled |-> TRUE,
                   original_name |-> clean_string(original_name),
                   year |-> movie_year,
                   synopsis |-> AddPeriod(clean_string(Strip(soup.synopsis.v))),
                   critics |-> FormatCritics(soup.blocks, cap),
                   imdb_rating |-> PyNone]]

\* The except IndexError branch after its log call has returned.
Disambiguate(movie_name, movie_year, page, cap, logs) ==
    LET j == FirstAccepted(page.cands, movie_name, movie_year)
    IN  IF j = 0 THEN BuildRecord(<<>>, movie_year, page, cap, logs)
        ELSE LET detail == CandidateDetail(page.cands[j])
                 fetch == soup_from_url(detail)
             IN  IF fetch.exc # "none"
                 THEN Raised(fetch.exc, logs \o fetch.logs, page)
                 ELSE IF detail.dd = <<>>
                 THEN Raised("IndexError", logs \o fetch.logs, detail)
                 ELSE BuildRecord(Strip(detail.dd[1]), movie_year, detail,
                                  cap, logs \o fetch.logs)

\* The whole call, given the page the search request is answered with:
\* the exception it ends with (or "none"), the log calls it made, the
\* record it stored and the page the record was read from.
get_useful_information_from_filmaffinity(movie_name, movie_year, page, cap) ==
    LET fetch == soup_from_url(page)
    IN  IF fetch.exc # "none" THEN Raised(fetch.exc, fetch.logs, page)
        ELSE IF page.dd # <<>>
        THEN BuildRecord(Strip(page.dd[1]), movie_year, page, cap, fetch.logs)
        ELSE LET call == LogCall("filmaffinity")
             IN  IF call.outcome # "returned"
                 THEN Raised(call.outcome, Append(fetch.logs, call), page)
                 ELSE Disambiguate(movie_name, movie_year, page, cap,
                                   Append(fetch.logs, call))

(***************************************************************************)
(* MoviesFinder.sign_in_to_imdb                                            *)
(***************************************************************************)
\* The sign-in page (its request, whether it carries the "list-group-item"
\* link) and how the POST of the credentials ends.
SignInPages ==
    [status : {"ok", "http_error", "conn_error"}, link : BOOLEAN,
     post : {"ok", "conn_error"}]

sign_in_to_imdb(sp) ==
    LET fetch == soup_from_url(sp)
    IN  IF fetch.exc # "none"
        THEN [exc |-> fetch.exc, logs |-> fetch.logs, session |-> FALSE]
        ELSE IF ~sp.link
        THEN [exc |-> "AttributeError", logs |-> fetch.logs, session |-> FALSE]
        ELSE IF sp.post = "conn_error"
        THEN [exc |-> "ConnectionError", logs |-> fetch.logs, session |-> FALSE]
        ELSE [exc |-> "none", logs |-> fetch.logs, session |-> TRUE]

(***************************************************************************)
(* MoviesFinder.get_useful_information_from_imdb                           *)
(***************************************************************************)
\* The Source-B search page: its request and the number of result_text cells.
SearchPages ==
    [status : {"ok", "http_error", "conn_error"}, n : 0..MaxEntries]

\* A result entry and the detail page behind it:
\*   href      whether the cell holds a link
\*   status    how the request of the detail page ends
\*   original  text of  div[class="originalTitle"], or None
\*   year      text of the link in  span[id="titleYear"], or None
\*   rating    text of  span[itemprop="ratingValue"], or None
\*   h1        text of the h1 of  div[class="title_wrapper"], the primary
\*             title: the same on every page
EntryPage(href, status, original, year, rating) ==
    [href |-> href, status |-> status, original |-> original,
     year |-> year, rating |-> rating, h1 |-> S_Up]

EntryYears == 2020..2021

\* The rating is read from an accepted page only, so one page without a
\* rating is enough: the one every str-year query accepts.
EntryPages ==
    {EntryPage(TRUE, "ok", o, y, PyStr(S_Rating75)) :
        o \in {PyNone, PyStr(S_UpOriginal), PyStr(S_Ut)},
        y \in {PyNone} \cup {PyStr(Digits(yy)) : yy \in EntryYears}}
    \cup {EntryPage(TRUE, "ok", PyStr(S_UpOriginal), PyStr(Digits(2020)),
                    PyNone),
          EntryPage(FALSE, "ok", PyNone, PyNone, PyNone),
          EntryPage(TRUE, "http_error", PyNone, PyNone, PyNone),
          EntryPage(TRUE, "conn_error", PyNone, PyNone, PyNone)}

\* .text.strip().lower().split("(original title)")[0].strip()
OriginalTitleText(text) ==
    Strip(Split(Lower(Strip(text)), S_OriginalTitle)[1])

\* The body of the try of one loop iteration: the exception it ends with
\* ("none" when it ends normally), the log calls made inside it, whether the
\* entry was accepted, and the rating read.
\* Without an originalTitle div the bare except runs
\*     soup.find(...).select("h1").text
\* where select() returns a list, which has no attribute text.
TryEntry(e, name, movie_year) ==
    LET fetch == soup_from_url(e)
        none == [exc |-> "none", logs |-> fetch.logs, accepted |-> FALSE,
                 rating |-> PyNone]
    IN  IF fetch.exc # "none" THEN [none EXCEPT !.exc = fetch.exc]
        ELSE IF e.original = PyNone THEN [none EXCEPT !.exc = "AttributeError"]
        ELSE IF e.year = PyNone THEN [none EXCEPT !.exc = "AttributeError"]
        ELSE IF /\ title_is_accurate(OriginalTitleText(e.original.v), name)
                /\ PyEq(PyStr(Strip(e.year.v)), movie_year)
             THEN IF e.rating = PyNone
                  THEN [none EXCEPT !.exc = "AttributeError"]
                  ELSE [none EXCEPT !.accepted = TRUE,
                                    !.rating = PyStr(Strip(e.rating.v))]
        ELSE none

\* One iteration of "for item in search_item_tags": the link is read outside
\* the try; an exception inside the try is handed to the logger.
VisitOutcome(e, name, movie_year) ==
    IF ~e.href
    THEN [exc |-> "IndexError", logs |-> <<>>, accepted |-> FALSE,
          rating |-> PyNone]
    ELSE LET t == TryEntry(e, name, movie_year)
         IN  IF t.exc = "none" THEN t
             ELSE LET call == LogCall("imdb")
                  IN  [exc |-> IF call.outcome = "returned" THEN "none"
                               ELSE call.outcome,
                       logs |-> Append(t.logs, call),
                       accepted |-> FALSE, rating |-> PyNone]

(***************************************************************************)
(* The state of a MoviesFinder and of one run of complete_information.     *)
(***************************************************************************)
VARIABLES
    movies,               \* self.movies, in the order of the mapping
    number_critics,       \* self.number_critics
    info,                 \* self._info
    logfile,              \* the lines of log.txt
    pc,                   \* where complete_information stands
    i,                    \* the movie of the current iteration
    exc,                  \* the exception that left complete_information
    original_movie_name,  \* the name handed to get_useful_information_from_imdb
    session,              \* whether sign_in_to_imdb returned a session
    nEntries,             \* len(search_item_tags)
    item,                 \* the entry the scan is at
    searched,             \* the text the Source-B search was made with
    pageA,                \* the page the last Resolver call was answered with
    soupA,                \* the page that call read the record from
    signin,               \* how the last sign-in ended
    visited,              \* the entries the last scan fetched, in order
    logCalls,             \* the calls of Logger.log made, with their outcome
    calls,                \* the calls and returns of the two lookups, in order
    arg,                  \* the input of a function applied on its own
    res                   \* its result

vars ==
    <<movies, number_critics, info, logfile, pc, i, exc, original_movie_name,
      session, nEntries, item, searched, pageA, soupA, signin, visited,
      logCalls, calls, arg, res>>

NoPage == APage("none", <<>>, <<>>, PyNone, 0)

\* After MoviesFinder(movies, credentials, number_critics).
Constructed ==
    /\ info = <<>>
    /\ logfile = <<>>
    /\ pc = "constructed"
    /\ i = 0
    /\ exc = "none"
    /\ original_movie_name = <<>>
    /\ session = FALSE
    /\ nEntries = 0
    /\ item = 0
    /\ searched = <<>>
    /\ pageA = NoPage
    /\ soupA = NoPage
    /\ signin = "none"
    /\ visited = <<>>
    /\ logCalls = <<>>
    /\ calls = <<>>

Init ==
    /\ movies \in MovieMappings
    /\ number_critics \in 0..MaxCritics
    /\ Constructed
    /\ arg = <<>>
    /\ res = <<>>

Names == {movies[j].name : j \in 1..Len(movies)}

\* A call of one of the two lookups for a movie, and its return.
Called(fn, movie) == [fn |-> fn, at |-> "call", movie |-> movie]
Returned(fn, movie) == [fn |-> fn, at |-> "return", movie |-> movie]

\* the display title handed over in place of the stored one
MatcherArgumentDisplay(movie) == Lower(movie)

\* original_name = self._info[movie]["original name"].lower()
MatcherArgument(movie) == Lower(info[movie].original_name)

\* The lines the calls that returned have appended to the log file.
Written(logs) ==
    LET done == SelectSeq(logs, LAMBDA c : c.outcome = "returned")
    IN  [j \in 1..Len(done) |-> done[j].site]

\* complete_information up to its loop: one empty dict per movie.
Begin ==
    /\ pc = "constructed"
    /\ info' = [nm \in Names |-> EmptyDict]
    /\ IF movies = <<>>
       THEN pc' = "done" /\ i' = 0
       ELSE pc' = "resolve" /\ i' = 1
    /\ UNCHANGED <<movies, number_critics, logfile, exc, original_movie_name,
                   session, nEntries, item, searched, pageA, soupA, signin, visited,
                   logCalls, calls, arg, res>>

\* self.get_useful_information_from_filmaffinity(movie, year)
Resolve ==
    /\ pc = "resolve"
    /\ \E page \in SourceAPages :
         LET m == movies[i]
             r == get_useful_information_from_filmaffinity(
                      m.name, m.year, page, number_critics)
         IN  /\ pageA' = page
             /\ soupA' = r.soup
             /\ logCalls' = logCalls \o r.logs
             /\ logfile' = logfile \o Written(r.logs)
             /\ IF r.exc # "none"
                THEN /\ pc' = "raised" /\ exc' = r.exc /\ info' = info
                     /\ calls' = Append(calls, Called("filmaffinity", m.name))
                ELSE /\ pc' = "signin"
                     /\ exc' = exc
                     /\ info' = [info EXCEPT ![m.name] = r.rec]
                     /\ calls' = calls \o <<Called("filmaffinity", m.name),
                                            Returned("filmaffinity", m.name)>>
    /\ UNCHANGED <<movies, number_critics, i, original_movie_name, session,
                   nEntries, item, searched, signin, visited, arg, res>>

\* original_name = self._info[movie]["original name"].lower(), then the call
\* of get_useful_information_from_imdb up to  s = self.sign_in_to_imdb().
SignIn ==
    /\ pc = "signin"
    /\ \E sp \in SignInPages :
         LET m == movies[i]
             r == sign_in_to_imdb(sp)
         IN  IF ~info[m.name].filled
             THEN /\ pc' = "raised" /\ exc' = "KeyError"
                  /\ UNCHANGED <<original_movie_name, session, signin,
                                 logCalls, logfile, calls>>
             ELSE /\ original_movie_name' = MatcherArgument(m.name)
                  /\ calls' = Append(calls, Called("imdb", m.name))
                  /\ logCalls' = logCalls \o r.logs
                  /\ logfile' = logfile \o Written(r.logs)
                  /\ session' = r.session
                  /\ IF r.exc # "none"
                     THEN pc' = "raised" /\ exc' = r.exc /\ signin' = "failed"
                     ELSE pc' = "search" /\ exc' = exc /\ signin' = "ok"
    /\ UNCHANGED <<movies, number_critics, info, i, nEntries, item, searched,
                   pageA, soupA, visited, arg, res>>

\* The search request and search_item_tags.
Search ==
    /\ pc = "search"
    /\ \E sr \in SearchPages :
         LET fetch == soup_from_url(sr)
         IN  /\ searched' =
                    JoinWith(Split(original_movie_name, <<" ">>), <<"+">>)
             /\ logCalls' = logCalls \o fetch.logs
             /\ logfile' = logfile \o Written(fetch.logs)
             /\ IF fetch.exc # "none"
                THEN /\ pc' = "raised" /\ exc' = fetch.exc
                     /\ UNCHANGED <<nEntries, item>>
                ELSE /\ pc' = "scan" /\ exc' = exc
                     /\ nEntries' = sr.n /\ item' = 1
    /\ UNCHANGED <<movies, number_critics, info, i, original_movie_name,
                   session, pageA, soupA, signin, visited, calls, arg, res>>

\* get_useful_information_from_imdb returns: its locals are gone.
Return ==
    /\ original_movie_name' = <<>>
    /\ session' = FALSE
    /\ nEntries' = 0
    /\ item' = 0
    /\ pc' = "returned"
    /\ calls' = Append(calls, Returned("imdb", movies[i].name))

\* a fresh dict assigned in place of the item:
\*     self._info[movie_name] = {"imdb_rating": imdb_rating}
StoreRatingFreshDict(rec, rating) ==
    [EmptyDict EXCEPT !.filled = TRUE, !.imdb_rating = rating]

\* self._info[movie_name]["imdb_rating"] = imdb_rating
StoreRating(rec, rating) == [rec EXCEPT !.imdb_rating = rating]

\* One iteration of the loop over search_item_tags.
VisitEntry ==
    /\ pc = "scan"
    /\ item <= nEntries
    /\ \E e \in EntryPages :
         LET m == movies[i]
             r == VisitOutcome(e, original_movie_name, m.year)
         IN  /\ visited' = Append(visited, e)
             /\ logCalls' = logCalls \o r.logs
             /\ logfile' = logfile \o Written(r.logs)
             /\ IF r.exc # "none"
                THEN /\ pc' = "raised" /\ exc' = r.exc
                     /\ UNCHANGED <<info, original_movie_name, session,
                                    nEntries, item, calls>>
                ELSE IF r.accepted
                THEN /\ info' = [info EXCEPT
                                    ![m.name] = StoreRating(@, r.rating)]
                     /\ exc' = exc
                     /\ Return
                ELSE /\ item' = item + 1
                     /\ UNCHANGED <<info, pc, exc, original_movie_name,
                                    session, nEntries, calls>>
    /\ UNCHANGED <<movies, number_critics, i, searched, pageA, soupA, signin, arg,
                   res>>

\* The loop over search_item_tags ends without a match.
EndScan ==
    /\ pc = "scan"
    /\ item > nEntries
    /\ Return
    /\ UNCHANGED <<movies, number_critics, info, logfile, i, exc, searched,
                   pageA, soupA, signin, visited, logCalls, arg, res>>

\* The head of "for movie, year in self.movies.items()" after an iteration:
\* the next movie, or the end of complete_information.
NextMovie ==
    /\ pc = "returned"
    /\ IF i < Len(movies)
       THEN pc' = "resolve" /\ i' = i + 1
       ELSE pc' = "done" /\ i' = i
    /\ searched' = <<>>
    /\ pageA' = NoPage
    /\ soupA' = NoPage
    /\ signin' = "none"
    /\ visited' = <<>>
    /\ UNCHANGED <<movies, number_critics, info, logfile, exc,
                   original_movie_name, session, nEntries, item, logCalls,
                   calls, arg, res>>

Next ==
    Begin \/ Resolve \/ SignIn \/ Search \/ VisitEntry \/ EndScan \/ NextMovie

Spec == Init /\ [][Next]_vars

(***************************************************************************)
(* clean_string applied on its own, once and then to its own output.       *)
(***************************************************************************)
CleanPieces ==
    {<<" ">>, <<".">>, <<",">>, <<"a">>, <<"\"">>, <<"'">>, <<LDQUO>>,
     AKA, FILMAFFINITY, ELLIPSIS3, ELLIPSIS1}

RECURSIVE Concat(_)
Concat(parts) ==
    IF parts = <<>> THEN <<>> ELSE Head(parts) \o Concat(Tail(parts))

CleanInputs ==
    {Concat(ps) : ps \in UNION {[1..n -> CleanPieces] : n \in 0..MaxPieces}}

InitClean ==
    /\ movies = <<>>
    /\ number_critics = 0
    /\ Constructed
    /\ arg \in CleanInputs
    /\ res = <<>>

ApplyClean ==
    /\ pc = "constructed"
    /\ pc' = "cleaned"
    /\ res' = <<clean_string(arg), clean_string(clean_string(arg))>>
    /\ UNCHANGED <<movies, number_critics, info, logfile, i, exc,
                   original_movie_name, session, nEntries, item, searched,
                   pageA, soupA, signin, visited, logCalls, calls, arg>>

NextClean == ApplyClean

SpecClean == InitClean /\ [][NextClean]_vars

(***************************************************************************)
(* title_is_accurate applied on its own, in its two definitions.           *)
(***************************************************************************)
TitleChars == {"a", "B", " "}

TitleInputs == UNION {[1..n -> TitleChars] : n \in 0..MaxTitleLen}

InitTitle ==
    /\ movies = <<>>
    /\ number_critics = 0
    /\ Constructed
    /\ arg \in TitleInputs \X TitleInputs
    /\ res = <<>>

ApplyTitle ==
    /\ pc = "constructed"
    /\ pc' = "compared"
    /\ res' = <<title_is_accurate(arg[1], arg[2]),
                legacy_title_is_accurate(arg[1], arg[2])>>
    /\ UNCHANGED <<movies, number_critics, info, logfile, i, exc,
                   original_movie_name, session, nEntries, item, searched,
                   pageA, soupA, signin, visited, logCalls, calls, arg>>

NextTitle == ApplyTitle

SpecTitle == InitTitle /\ [][NextTitle]_vars

(***************************************************************************)
(* The claims.                                                             *)
(***************************************************************************)
\* The movie of the current iteration and its record.
Current == movies[i]
Record == info[Current.name]

\* The last Resolver call has stored the record of the current movie.
ResolverStored ==
    /\ pc \in {"signin", "search", "scan", "returned", "raised"}
    /\ soupA # NoPage
    /\ Record.filled

\* The last Resolver call was answered with a page without a detail block.
AmbiguousAnswer ==
    /\ pc \in {"signin", "search", "scan", "returned", "raised"}
    /\ pageA.status = "ok"
    /\ pageA.dd = <<>>

\* C1: complete_information never ends with an exception, whatever the sites
\* answer, and once it has returned _info holds a record for every title of
\* the input.
C1_BatchAlwaysCompletes ==
    /\ pc # "raised"
    /\ pc = "done" => \A nm \in Names : nm \in DOMAIN info /\ info[nm].filled

\* C2: every call of Logger.log made at a failure site returns; none ends
\* with an exception.
C2_LogNeverFails ==
    \A j \in 1..Len(logCalls) : logCalls[j].outcome = "returned"

\* C3: with one detail block on Source A and, on Source B, one entry whose
\* title is the canonical title and whose year is the text of the query's
\* int year, the record ends with that page's rating, the canonical title,
\* the query year, the synopsis with a period, and no critics.
C3_EndToEndScenario ==
    ( /\ pc = "returned"
      /\ Current.year.tag = "int"
      /\ pageA.status = "ok" /\ pageA.dd # <<>> /\ pageA.blocks = <<>>
      /\ pageA.synopsis = PyStr(S_AStory)
      /\ Len(visited) = 1
      /\ visited[1].href /\ visited[1].status = "ok"
      /\ visited[1].original = PyStr(S_UpOriginal)
      /\ pageA.dd[1] = S_Up
      /\ visited[1].year = PyStr(Current.year.v)
      /\ visited[1].rating = PyStr(S_Rating75) )
    => /\ Record.imdb_rating = PyStr(S_Rating75)
       /\ Record.original_name = S_Up
       /\ PyEq(Record.year, Current.year)
       /\ Record.synopsis = S_AStory \o <<".">>
       /\ Record.critics = PyNone

\* The candidate's listed title equals the display title, case aside.
ListedTitleIsDisplayTitle(c) == Lower(c.title) = Lower(Current.name)

\* The candidate's listed year is at most d away from the query year.
ListedYearWithin(c, d) ==
    LET listed == DigitsToInt(c.year)
        wanted == DigitsToInt(Current.year.v)
    IN  wanted - d <= listed /\ listed <= wanted + d

\* The record holds the canonical title of candidate c's detail page.
SelectedCandidate(c) ==
    /\ pc # "raised"
    /\ Record.filled
    /\ Record.original_name = clean_string(Strip(CandidateDetail(c).dd[1]))

\* C4: in the fallback, a candidate with the display title is accepted when
\* its year is Y-1, Y or Y+1 and rejected when it is Y-2 or Y+2.
C4_YearTolerance ==
    ( /\ AmbiguousAnswer
      /\ Len(pageA.cands) = 1
      /\ ListedTitleIsDisplayTitle(pageA.cands[1]) )
    => (SelectedCandidate(pageA.cands[1])
            <=> ListedYearWithin(pageA.cands[1], 1))

\* C5: on an ambiguous search the first candidate in document order with the
\* display title and a year within tolerance is selected, and the canonical
\* title is the one of its detail page.
C5_FirstMatchingCandidate ==
    AmbiguousAnswer =>
        \A j \in 1..Len(pageA.cands) :
            ( /\ ListedTitleIsDisplayTitle(pageA.cands[j])
              /\ ListedYearWithin(pageA.cands[j], 1)
              /\ \A h \in 1..(j - 1) :
                    ~ ( /\ ListedTitleIsDisplayTitle(pageA.cands[h])
                        /\ ListedYearWithin(pageA.cands[h], 1) ) )
            => SelectedCandidate(pageA.cands[j])

\* C6: a failed sign-in does not raise: it is logged, the rating stays
\* absent and the record keeps what the Resolver wrote.
C6_SignInFailureTolerated ==
    signin = "failed" =>
        /\ pc # "raised"
        /\ logfile # <<>>
        /\ Record.filled
        /\ Record.imdb_rating = PyNone

\* C7 as stated: no reviewBody block gives critics None; at least one block
\* gives a non-empty list.
C7_NoneOrNonEmpty ==
    ResolverStored =>
        /\ soupA.blocks = <<>> => Record.critics = PyNone
        /\ soupA.blocks # <<>> =>
              Record.critics.tag = "list" /\ Record.critics.v # <<>>

\* C7 amended: no reviewBody block gives critics None, never a list; at
\* least one block gives a list, which is non-empty exactly when
\* number_critics is at least 1.
C7_NoneOrListByCap ==
    ResolverStored =>
        /\ soupA.blocks = <<>> => Record.critics = PyNone
        /\ soupA.blocks # <<>> =>
              /\ Record.critics.tag = "list"
              /\ Record.critics.v # <<>> <=> number_critics >= 1

C7_Witness ==
    /\ ResolverStored
    /\ pc = "signin"
    /\ soupA.blocks = <<>>
    /\ Record.critics = PyNone

\* What the Resolver makes of one block: cleaned, ended by a period, cut
\* before a "Rating" annotation.
Excerpt(text) ==
    LET cleaned == clean_string(Strip(text))
        ended == IF EndsWith(cleaned, <<".">>) THEN cleaned
                 ELSE cleaned \o <<".">>
    IN  IF Contains(ended, RATING) THEN Strip(Split(ended, RATING)[1])
        ELSE ended

\* C8: of n reviewBody blocks and a cap of k the record holds min(n, k)
\* excerpts, made of the first min(n, k) blocks in document order.
C8_FirstMinBlocks ==
    (ResolverStored /\ soupA.blocks # <<>>) =>
        LET kept == Min(Len(soupA.blocks), number_critics)
        IN  /\ Len(Record.critics.v) = kept
            /\ \A j \in 1..kept :
                  Record.critics.v[j] = Excerpt(soupA.blocks[j])

C8_Witness ==
    /\ ResolverStored
    /\ pc = "signin"
    /\ number_critics = 2
    /\ Len(soupA.blocks) = 3
    /\ Len(Record.critics.v) = 2
    /\ Record.critics.v[1] # Record.critics.v[2]

\* A cleaned string with nothing left for a second pass to rewrite.
NothingLeft(c) ==
    /\ ~Contains(c, <<" ", " ">>)
    /\ ~Contains(c, <<" ", ",">>)
    /\ ~Contains(c, ELLIPSIS1)
    /\ ~EndsWith(c, FILMAFFINITY)
    /\ ~EndsWith(c, AKA)

\* C9 as stated: cleaning a cleaned string gives the same string.
C9_Idempotent == pc = "cleaned" => res[2] = res[1]

\* C9 amended: cleaning a cleaned string gives the same string exactly when
\* the cleaned string has no doubled space, no space before a comma, no
\* one-character ellipsis marker " (U+2026) ", and does not end with
\* "(FILMAFFINITY)" or "aka".
C9_IdempotentWhenNothingLeft ==
    pc = "cleaned" => (res[2] = res[1] <=> NothingLeft(res[1]))

C9_Witness ==
    /\ pc = "cleaned"
    /\ Contains(arg, <<".", ".">>)
    /\ EndsWith(arg, FILMAFFINITY)
    /\ res[1] # arg
    /\ res[2] = res[1]

\* C10: a non-empty title is accurate against itself, by the edit-distance
\* definition and by the legacy word-containment definition.
C10_Reflexive ==
    (pc = "compared" /\ arg[1] = arg[2] /\ arg[1] # <<>>) =>
        res[1] /\ res[2]

C10_Witness ==
    /\ pc = "compared"
    /\ arg[1] = arg[2]
    /\ Len(arg[1]) >= 3
    /\ "B" \in {arg[1][j] : j \in 1..Len(arg[1])}
    /\ " " \in {arg[1][j] : j \in 1..Len(arg[1])}
    /\ res[1] /\ res[2]

\* The calls complete_information makes for its first n movies when none of
\* them raises: for each movie in input order the Resolver call and its
\* return, then the Matcher call and its return.
RECURSIVE CallsInOrder(_)
CallsInOrder(n) ==
    IF n = 0 THEN <<>>
    ELSE CallsInOrder(n - 1)
             \o <<Called("filmaffinity", movies[n].name),
                  Returned("filmaffinity", movies[n].name),
                  Called("imdb", movies[n].name),
                  Returned("imdb", movies[n].name)>>

IsPrefix(s, t) == Len(s) <= Len(t) /\ SubSeq(t, 1, Len(s)) = s

\* The search text made of a title: its lowercased tokens joined with "+".
SearchTextOf(title) == JoinWith(Split(Lower(title), <<" ">>), <<"+">>)

\* C11: movies are processed one at a time in input order: the calls made so
\* far are an initial part of (Resolver call, Resolver return, Matcher call,
\* Matcher return) repeated movie by movie in input order; and the Matcher
\* is handed, and searches with, the canonical title the Resolver has just
\* stored for that movie (lowercased, its tokens joined with "+").
C11_OneAtATimeInOrder ==
    /\ IsPrefix(calls, CallsInOrder(Len(movies)))
    /\ pc \in {"search", "scan"} =>
          original_movie_name = Lower(Record.original_name)
    /\ pc \in {"scan", "returned"} =>
          searched = SearchTextOf(Record.original_name)

C11_Witness ==
    /\ pc = "returned"
    /\ i = 2
    /\ Len(calls) = 8
    /\ calls[4] = Returned("imdb", movies[1].name)
    /\ calls[5] = Called("filmaffinity", movies[2].name)
    /\ info[movies[1].name].original_name = S_Up
    /\ Record.original_name = S_ItTwo
    /\ searched = <<"i", "t", "+", "2">>

\* What lines 131-196 store for the page that answered, the log call before
\* them left aside.
FallbackStores ==
    Disambiguate(Current.name, Current.year, pageA, number_critics, <<>>).rec

\* C12: the year of every stored record is the year of the input query for
\* that movie, an int for an int and a str for a str; and for an ambiguous
\* answer the fallback code stores no other year, whatever the listed year
\* of the candidate it accepts.
C12_YearEchoed ==
    /\ \A j \in 1..Len(movies) :
          (movies[j].name \in DOMAIN info /\ info[movies[j].name].filled)
              => PyEq(info[movies[j].name].year, movies[j].year)
    /\ AmbiguousAnswer =>
          LET stored == FallbackStores
          IN  stored.filled => PyEq(stored.year, Current.year)

C12_Witness ==
    /\ pc = "signin"
    /\ i = 2
    /\ Record.filled
    /\ Current.year = PyInt(2020)
    /\ Record.year = PyInt(2020)
    /\ info[movies[1].name].year = movies[1].year
    /\ movies[1].year = PyStr(Digits(2020))

\* C13: when the answer is ambiguous and no candidate has both the display
\* title and a year within tolerance, the Resolver does not raise and stores
\* a record whose canonical title is the empty string.
C13_NoCandidateGivesEmptyTitle ==
    ( /\ AmbiguousAnswer
      /\ FirstAccepted(pageA.cands, Current.name, Current.year) = 0 )
    => /\ pc # "raised"
       /\ Record.filled
       /\ Record.original_name = <<>>

\* The year of the query and the year a page lists are the same year.
SameYear(text, year) == DigitsToInt(Strip(text)) = DigitsToInt(year.v)

\* An entry of the scan passes the acceptance test of the current movie: its
\* page was fetched, its original title is accurate against the canonical
\* title and its year is the query's year.
EntryPasses(e) ==
    /\ e.href /\ e.status = "ok"
    /\ e.original # PyNone /\ e.year # PyNone
    /\ title_is_accurate(OriginalTitleText(e.original.v),
                         Lower(Record.original_name))
    /\ SameYear(e.year.v, Current.year)

\* C14: the scan is first-match-wins: once the Matcher has returned, if one
\* of the entries it fetched passes the test then the first that passes is
\* the last it fetched and the record holds that entry's rating; if none
\* passes (or there was no entry) the rating is absent.
C14_FirstMatchWins ==
    pc = "returned" =>
        LET passing == {j \in 1..Len(visited) : EntryPasses(visited[j])}
        IN  IF passing = {}
            THEN Record.imdb_rating = PyNone
            ELSE /\ passing = {Len(visited)}
                 /\ visited[Len(visited)].rating # PyNone
                 /\ Record.imdb_rating =
                        PyStr(Strip(visited[Len(visited)].rating.v))

\* The last entry the scan went to.
LastVisited == visited[Len(visited)]

\* The entry's page cannot be fetched or read: the request fails, or the
\* page has no titleYear element.
EntryErrs(e) == e.href /\ (e.status # "ok" \/ e.year = PyNone)

\* C15: an error on one entry of the scan is logged and only that entry is
\* skipped: the Matcher does not raise and a line is written to the log.
C15_EntryErrorSkipped ==
    (visited # <<>> /\ EntryErrs(LastVisited)) =>
        /\ pc # "raised"
        /\ logfile # <<>>

\* The page has no originalTitle element, its primary title is accurate
\* against the canonical title, its year is equal to the query year as the
\* code compares them, and it shows a rating.
AcceptableByPrimaryTitle(e) ==
    /\ e.href /\ e.status = "ok"
    /\ e.original = PyNone
    /\ title_is_accurate(Lower(Strip(e.h1)), Lower(Record.original_name))
    /\ e.year # PyNone /\ PyEq(PyStr(Strip(e.year.v)), Current.year)
    /\ e.rating # PyNone

\* C16: a page without an originalTitle element is tested with its primary
\* title: with an accurate primary title and the query's year it is accepted
\* and its rating stored.
C16_PrimaryTitleFallback ==
    ( /\ pc \in {"scan", "returned", "raised"}
      /\ visited # <<>>
      /\ AcceptableByPrimaryTitle(LastVisited) )
    => /\ pc = "returned"
       /\ Record.imdb_rating = PyStr(Strip(LastVisited.rating.v))

\* A step of get_useful_information_from_imdb for the current movie (the
\* read of line 64 included).
MatcherStep == pc \in {"signin", "search", "scan"}

\* A record with its rating left aside.
RatingAside(rec) == [rec EXCEPT !.imdb_rating = PyNone]

\* C17: a step of the Matcher for movie m changes nothing in _info but
\* possibly the rating of m's record: the keys of _info, every other movie's
\* record and m's canonical title, year, synopsis and critics stay as they
\* were.
C17_MatcherFrame ==
    [][MatcherStep =>
          /\ DOMAIN info' = DOMAIN info
          /\ \A nm \in DOMAIN info :
                nm # Current.name => info'[nm] = info[nm]
          /\ RatingAside(info'[Current.name]) = RatingAside(info[Current.name])
      ]_vars

C17_Witness ==
    /\ pc = "returned"
    /\ i = 2
    /\ Record.imdb_rating = PyStr(S_Rating75)
    /\ Record.original_name = S_Up
    /\ Record.synopsis = S_AStory \o <<".">>
    /\ Record.critics.tag = "list"
    /\ info[movies[1].name].filled
    /\ info[movies[1].name].imdb_rating = PyStr(S_Rating75)

\* C18: every critic excerpt the Resolver stores ends with a period, also
\* one from which a "Rating" annotation was cut.
C18_ExcerptsEndWithPeriod ==
    (ResolverStored /\ Record.critics.tag = "list") =>
        \A j \in 1..Len(Record.critics.v) :
            EndsWith(Record.critics.v[j], <<".">>)

============================================================================
